---- MODULE Spec2Model ----
(***************************************************************************)
(* State-machine model of pymc_bart/tree.py: the Node and Tree classes.   *)
(*                                                                         *)
(* The module follows the Python statements of the source as written (the *)
(* jitclass decorators are taken to leave the meaning of the method       *)
(* bodies unchanged).  Python objects that the code shares or mutates in  *)
(* place (the tree_structure dict, the output array) live in heaps and    *)
(* are named by references; Node objects and the idx_data_points arrays   *)
(* are never written in place after they were stored in a tree, so a Node *)
(* is a record held by value.  Floats are the integers they hold (every   *)
(* value of the model is an exactly representable integer), the mean of   *)
(* several of them is a fraction, and nan is a value of its own that is   *)
(* equal to nothing, itself included.                                      *)
(***************************************************************************)
EXTENDS Integers, Sequences, FiniteSets, TLC

\* ---------------------------------------------------------------- bounds
NumRows == 3     \* training rows 0 .. NumRows-1 (rows of output)
NumCols == 1     \* columns of output (the "shape" of a prediction)
MaxIndex == 6    \* largest node index a grow may create
MaxOps == 2      \* mutating calls (grow, set_node, copy, trim) per run
MaxSetNode == 1  \* single set_node calls among them
MaxRawIndex == 2 \* largest index of a single set_node or delete_leaf_node
MaxNodeIndex == 12 \* largest index given to new_leaf_node / new_split_node
MaxExp == 55     \* get_depth is called near the powers 2^0 .. 2^MaxExp
RecursionLimit == 8 \* frames the interpreter allows before RecursionError

\* ---------------------------------------------------- input value sets
TreeIds == {"T", "C"}          \* T: the constructed tree; C: a tree made from it
Vars == {0, 1}                 \* covariate indices
XVals == {1, 5, 9}             \* values a covariate of x takes
Thresholds == {5}              \* split values
LeafValues == {1, 9}           \* values of the leaves given to set_node
LeafPairs == {<<1, 9>>}        \* values of the two leaves of a grow
DefaultLeafValues == {5}       \* leaf_node_value given to the constructor
OutFill == {0}                 \* content of the output array handed in

SplitVarArgs == {-1} \cup Vars  \* idx_split_variable given to new_split_node
PointArgs == {<<>>, <<0>>, <<1, 1, 1>>}  \* idx_data_points given to new_leaf_node

Rows == 0 .. (NumRows - 1)
Cols == 0 .. (NumCols - 1)
Indices == 0 .. MaxIndex
NodeIndices == 0 .. MaxNodeIndex
Refs == 1 .. Cardinality(TreeIds)

NoTree == [kind |-> "none"]
Free == [kind |-> "free"]

\* del obj.attr: the attribute's name joins obj.dels and reading it raises
\* AttributeError
HasAttr(obj, name) == name \notin obj.dels

\* ------------------------------------------------------- sequence helpers
RECURSIVE SeqSum(_)
SeqSum(s) == IF s = <<>> THEN 0 ELSE Head(s) + SeqSum(Tail(s))

SeqToSet(s) == {s[j] : j \in 1 .. Len(s)}

RECURSIVE SetSum(_, _)
SetSum(f, S) == IF S = {} THEN 0
                ELSE LET k == CHOOSE e \in S : TRUE IN f[k] + SetSum(f, S \ {k})

\* ----------------------------------------------------------------- floats
NaN == [nan |-> TRUE, n |-> 0, d |-> 1]
Float(v) == [nan |-> FALSE, n |-> v, d |-> 1]
\* IEEE equality: nan compares unequal to everything
FloatEq(a, b) == ~a.nan /\ ~b.nan /\ a.n * b.d = b.n * a.d

\* np.append(arr, values): returns a NEW array, the argument is not changed
np_append(arr, v) == Append(arr, v)

\* np.mean(a, 0) of a list of scalars; the mean of an empty list is nan
np_mean(a) == IF Len(a) = 0 THEN NaN
              ELSE [nan |-> FALSE, n |-> SeqSum(a), d |-> Len(a)]

\* ------------------------------------------------------------------- Node
\* Node.__init__
Node == [index |-> -1, value |-> 0, idx_data_points |-> <<>>,
         idx_split_variable |-> -1, dels |-> {}]

new_leaf_node(index, value, idx_data_points) ==
    [Node EXCEPT !.index = index, !.value = value,
                 !.idx_data_points = idx_data_points, !.idx_split_variable = -1]

new_split_node(index, split_value, idx_split_variable) ==
    [Node EXCEPT !.index = index, !.value = split_value,
                 !.idx_data_points = <<>>, !.idx_split_variable = idx_split_variable]

\* a parent computed with a division that truncates toward zero
get_idx_parent_node_trunc(node) ==
    IF node.index - 1 < 0 THEN -((1 - node.index) \div 2)
    ELSE (node.index - 1) \div 2

\* Python floor division
get_idx_parent_node(node) == (node.index - 1) \div 2

\* a left child that lost its + 1
get_idx_left_child_no_offset(node) == node.index * 2

get_idx_left_child(node) == node.index * 2 + 1

\* a right child that lost its + 1
get_idx_right_child_no_offset(node) == get_idx_left_child(node)

get_idx_right_child(node) == get_idx_left_child(node) + 1

\* a split test that leaves out variable 0
is_split_node_positive(node) == node.idx_split_variable > 0

is_split_node(node) == node.idx_split_variable >= 0

is_leaf_node(node) == ~is_split_node(node)

\* -------------------------------------------------------------- get_depth
\* An index of get_depth is a Python int of up to 63 bits, more than the
\* arithmetic of the model holds: the integer 2^exp + off is the record
\* [exp, off], with -2^(exp-1) <= off < 2^exp.
RECURSIVE Pow2(_)
Pow2(k) == IF k <= 0 THEN 1 ELSE 2 * Pow2(k - 1)

PyInt(k, m) == [exp |-> k, off |-> m]

\* index + 1
int_add(x, n) == [x EXCEPT !.off = @ + n]

\* a double has 53 significant bits
MantissaBits == 53

\* the distance between neighbouring doubles around the integer x
ulp(x) ==
    LET e == IF x.off >= 0 THEN x.exp ELSE x.exp - 1
    IN IF e < MantissaBits THEN 1 ELSE Pow2(e - MantissaBits + 1)

\* the multiple of s nearest to m, the even multiple on a tie
round_half_even(m, s) ==
    LET q == m \div s
        r == m - q * s
    IN IF 2 * r < s THEN q * s
       ELSE IF 2 * r > s THEN (q + 1) * s
       ELSE IF q % 2 = 0 THEN q * s ELSE (q + 1) * s

\* math.log takes a float: the int argument is converted to the nearest
\* double, ties to even
float(x) == [x EXCEPT !.off = round_half_even(@, ulp(x))]

\* int(math.floor(math.log(d, 2))) for a double d that holds an integer.
\* The logarithm is taken at its most accurate: the floor is the floor of
\* the exact log2 of d.  (CPython divides two rounded natural logarithms,
\* which can only be less accurate.)
floor_log(d) == IF d.off >= 0 THEN d.exp ELSE d.exp - 1

get_depth(index) == floor_log(float(int_add(index, 1)))

\* ------------------------------------------------------------------ state
VARIABLES
    trees,    \* TreeIds -> Tree object (tree_structure and output are
              \*   references; idx_leaf_nodes, leaf_node_value held by value)
    dicts,    \* heap of tree_structure dicts
    bufs,     \* heap of output arrays
    ops,      \* mutating calls made so far
    raw,      \* single set_node calls made so far
    pair,     \* the caller's position in "c = t.copy(); predict both"
    last,     \* the call that was made last
    ret,      \* what that call returned or raised
    stack     \* the frames of a predict call that is being run step by step

vars == <<trees, dicts, bufs, ops, raw, pair, last, ret, stack>>

World == [trees |-> trees, dicts |-> dicts, bufs |-> bufs]

\* the first reference of a heap that no object occupies
FreshRef(heap) == CHOOSE r \in Refs : heap[r] = Free /\ \A q \in Refs : q < r => heap[q] # Free

\* reference counting: an object no tree refers to is freed
Collect(w) ==
    LET live == {t \in TreeIds : w.trees[t] # NoTree}
        usedD == {w.trees[t].tree_structure : t \in live}
        usedB == {w.trees[t].output : t \in {u \in live : HasAttr(w.trees[u], "output")}}
    IN [w EXCEPT !.dicts = [r \in Refs |-> IF r \in usedD THEN w.dicts[r] ELSE Free],
                 !.bufs = [r \in Refs |-> IF r \in usedB THEN w.bufs[r] ELSE Free]]

\* ----------------------------------------------------------- Python dict
\* a dict keeps its keys in insertion order; storing under a key that is
\* present keeps the key's position
EmptyDict == [order |-> <<>>, node |-> <<>>]

dict_setitem(d, k, v) ==
    IF k \in DOMAIN d.node
    THEN [d EXCEPT !.node[k] = v]
    ELSE [order |-> Append(d.order, k),
          node |-> [j \in DOMAIN d.node \cup {k} |-> IF j = k THEN v ELSE d.node[j]]]

\* ------------------------------------------------------------------- Tree
\* Tree.__init__ into slot t; output is a reference to the caller's array
\* a constructor that registers leaf 1 (np.ones) where the root is 0
Tree__init__ones(w, t, leaf_node_value, idx_data_points, output) ==
    LET dref == FreshRef(w.dicts)
        d == dict_setitem(EmptyDict, 0, new_leaf_node(0, leaf_node_value, idx_data_points))
    IN [w EXCEPT !.dicts[dref] = d,
                 !.trees[t] = [tree_structure |-> dref,
                               idx_leaf_nodes |-> <<1>>,
                               output |-> output,
                               leaf_node_value |-> leaf_node_value,
                               dels |-> {}]]

Tree__init__(w, t, leaf_node_value, idx_data_points, output) ==
    LET dref == FreshRef(w.dicts)
        d == dict_setitem(EmptyDict, 0, new_leaf_node(0, leaf_node_value, idx_data_points))
    IN [w EXCEPT !.dicts[dref] = d,
                 !.trees[t] = [tree_structure |-> dref,
                               idx_leaf_nodes |-> <<0>>,
                               output |-> output,
                               leaf_node_value |-> leaf_node_value,
                               dels |-> {}]]

TreeDict(w, t) == w.dicts[w.trees[t].tree_structure]

\* a lookup that stores and returns a default Node for a missing key
get_node_default(w, t, index) ==
    IF index \in DOMAIN TreeDict(w, t).node
    THEN [err |-> "none", node |-> TreeDict(w, t).node[index], w |-> w]
    ELSE [err |-> "none", node |-> Node,
          w |-> [w EXCEPT !.dicts[w.trees[t].tree_structure] =
                              [order |-> Append(@.order, index),
                               node |-> [j \in DOMAIN @.node \cup {index} |->
                                           IF j = index THEN Node ELSE @.node[j]]]]]

\* Tree.get_node: KeyError when index is not a key; the dict is only read
get_node(w, t, index) ==
    IF index \in DOMAIN TreeDict(w, t).node
    THEN [err |-> "none", node |-> TreeDict(w, t).node[index], w |-> w]
    ELSE [err |-> "KeyError", node |-> Node, w |-> w]

\* Tree.set_node (also Tree.__setitem__): np.append builds a new array that
\* is dropped, self.idx_leaf_nodes is left as it was
set_node(w, t, index, node) ==
    LET w1 == [w EXCEPT !.dicts[w.trees[t].tree_structure] = dict_setitem(@, index, node)]
        dropped == IF is_leaf_node(node)
                   THEN np_append(w.trees[t].idx_leaf_nodes, index)
                   ELSE <<>>
    IN w1

\* Tree.delete_leaf_node: self.idx_leaf_nodes is a numpy array (or was
\* deleted by trim) and has no attribute remove, so line 161 raises and
\* line 162 is not reached
delete_leaf_node(w, t, index) == [err |-> "AttributeError", w |-> w]

\* the array itself where a copy was meant
ndarray_copy_alias(w, ref) == [w |-> w, ref |-> ref]

\* ndarray.copy() of an output array: a new array with the same content
ndarray_copy(w, ref) ==
    LET r == FreshRef(w.bufs)
    IN [w |-> [w EXCEPT !.bufs[r] = [kind |-> "ndarray", data |-> w.bufs[ref].data]],
        ref |-> r]

\* the loop of Tree.copy over self.tree_structure.items(), in dict order
RECURSIVE copy_items(_, _, _, _)
copy_items(w, d, dst, keys) ==
    IF keys = <<>> THEN w
    ELSE LET k == Head(keys)
             v == d.node[k]
             node == [Node EXCEPT !.index = v.index,
                                  !.value = v.value,
                                  !.idx_data_points = v.idx_data_points,
                                  !.idx_split_variable = v.idx_split_variable]
         IN copy_items(set_node(w, dst, k, node), d, dst, Tail(keys))

\* a shallow copy: a new Tree object over the same dict and arrays
copy_shallow(w, src, dst) ==
    [err |-> "none", w |-> [w EXCEPT !.trees[dst] = w.trees[src]]]

\* Tree.copy of the tree in slot src; the new Tree object goes to slot dst
copy(w, src, dst) ==
    LET self == w.trees[src]
        d == w.dicts[self.tree_structure]
    IN IF 0 \notin DOMAIN d.node
       THEN [err |-> "KeyError", w |-> w]
       ELSE IF ~HasAttr(d.node[0], "idx_data_points") \/ ~HasAttr(self, "output")
       THEN [err |-> "AttributeError", w |-> w]
       ELSE LET c == ndarray_copy(w, self.output)
                w1 == Tree__init__(c.w, dst, self.leaf_node_value,
                                   d.node[0].idx_data_points, c.ref)
            IN [err |-> "none", w |-> copy_items(w1, d, dst, d.order)]

\* the loop of Tree.trim over a_tree.tree_structure.keys()
RECURSIVE trim_items(_, _, _)
trim_items(w, dst, keys) ==
    IF keys = <<>> THEN w
    ELSE LET k == Head(keys)
             current_node == get_node(w, dst, k).node
             w1 == IF is_leaf_node(current_node)
                   THEN [w EXCEPT !.dicts[w.trees[dst].tree_structure].node[k] =
                                     [@ EXCEPT !.idx_data_points = <<>>,
                                               !.dels = {"idx_data_points"}]]
                   ELSE w
         IN trim_items(w1, dst, Tail(keys))

\* Tree.trim of the tree in slot src; the trimmed copy goes to slot dst
trim(w, src, dst) ==
    LET c == copy(w, src, dst)
    IN IF c.err # "none" THEN c
       ELSE LET w1 == [c.w EXCEPT !.trees[dst].output = 0,
                                  !.trees[dst].idx_leaf_nodes = <<>>,
                                  !.trees[dst].dels = {"output", "idx_leaf_nodes"}]
            IN [err |-> "none", w |-> trim_items(w1, dst, TreeDict(w1, dst).order)]

\* Tree.get_split_variables, in dict order
RECURSIVE split_variables_of(_, _)
split_variables_of(d, keys) ==
    IF keys = <<>> THEN <<>>
    ELSE LET node == d.node[Head(keys)]
             rest == split_variables_of(d, Tail(keys))
         IN IF is_split_node(node) THEN <<node.idx_split_variable>> \o rest ELSE rest

\* a comprehension that lost its filter: one entry per node
get_split_variables_unfiltered(w, t) ==
    [j \in 1 .. Len(TreeDict(w, t).order) |->
        TreeDict(w, t).node[TreeDict(w, t).order[j]].idx_split_variable]

get_split_variables(w, t) == split_variables_of(TreeDict(w, t), TreeDict(w, t).order)

\* output[idx] = value: every row named by idx gets value in every column
scatter(buf, idx, value) ==
    [r \in Rows |-> IF r \in SeqToSet(idx) THEN [c \in Cols |-> value] ELSE buf[r]]

\* output.T
Transpose(buf) == [c \in Cols |-> [r \in Rows |-> buf[r][c]]]

\* the loop of Tree._predict over self.idx_leaf_nodes
RECURSIVE predict_items(_, _, _)
predict_items(w, t, leaves) ==
    IF leaves = <<>> THEN [err |-> "none", w |-> w]
    ELSE LET leaf_node == get_node(w, t, Head(leaves))
         IN IF leaf_node.err # "none" THEN [err |-> leaf_node.err, w |-> w]
            ELSE IF ~HasAttr(leaf_node.node, "idx_data_points")
            THEN [err |-> "AttributeError", w |-> w]
            ELSE predict_items(
                   [w EXCEPT !.bufs[w.trees[t].output].data =
                        scatter(@, leaf_node.node.idx_data_points, leaf_node.node.value)],
                   t, Tail(leaves))

\* Tree._predict: writes self.output in place and returns its transpose
_predict(w, t) ==
    IF ~HasAttr(w.trees[t], "output") \/ ~HasAttr(w.trees[t], "idx_leaf_nodes")
    THEN [err |-> "AttributeError", w |-> w, out |-> <<>>]
    ELSE LET p == predict_items(w, t, w.trees[t].idx_leaf_nodes)
         IN IF p.err # "none" THEN [err |-> p.err, w |-> p.w, out |-> <<>>]
            ELSE [err |-> "none", w |-> p.w,
                  out |-> Transpose(p.w.bufs[p.w.trees[t].output].data)]

\* Tree._traverse_leaf_values: np.append builds a new array that is
\* dropped, the list leaf_values is left as it was
RECURSIVE _traverse_leaf_values(_, _, _)
_traverse_leaf_values(d, leaf_values, node_index) ==
    IF node_index \notin DOMAIN d.node
    THEN [err |-> "KeyError", leaf_values |-> leaf_values]
    ELSE LET node == d.node[node_index]
         IN IF is_leaf_node(node)
            THEN LET dropped == np_append(leaf_values, node.value)
                 IN [err |-> "none", leaf_values |-> leaf_values]
            ELSE LET l == _traverse_leaf_values(d, leaf_values, get_idx_left_child(node))
                 IN IF l.err # "none" THEN l
                    ELSE _traverse_leaf_values(d, l.leaf_values, get_idx_right_child(node))

\* a strict comparison where <= was meant
goes_left_strict(x, current_node) == x[current_node.idx_split_variable] < current_node.value

\* x[current_node.idx_split_variable] <= current_node.value
goes_left(x, current_node) == x[current_node.idx_split_variable] <= current_node.value

\* Tree._traverse_tree
RECURSIVE _traverse_tree(_, _, _, _)
_traverse_tree(d, x, node_index, excluded) ==
    IF node_index \notin DOMAIN d.node
    THEN [err |-> "KeyError", value |-> NaN]
    ELSE LET current_node == d.node[node_index]
         IN IF is_leaf_node(current_node)
            THEN [err |-> "none", value |-> Float(current_node.value)]
            ELSE IF current_node.idx_split_variable \in excluded
            THEN LET l == _traverse_leaf_values(d, <<>>, node_index)
                 IN IF l.err # "none" THEN [err |-> l.err, value |-> NaN]
                    ELSE [err |-> "none", value |-> np_mean(l.leaf_values)]
            ELSE IF goes_left(x, current_node)
            THEN _traverse_tree(d, x, get_idx_left_child(current_node), excluded)
            ELSE _traverse_tree(d, x, get_idx_right_child(current_node), excluded)

\* Tree.predict; excluded is None (omitted) or a list of variable indices
None == [none |-> TRUE, list |-> {}]
List(S) == [none |-> FALSE, list |-> S]

predict(w, t, x, excluded) ==
    LET ex == IF excluded.none THEN {} ELSE excluded.list
    IN _traverse_tree(TreeDict(w, t), x, 0, ex)

\* ------------------------------------------- predict, one frame at a time
\* A frame of _traverse_tree or _traverse_leaf_values: its node_index
\* argument, where it stands (entry: before its first statement; the wait_
\* positions: a call it made has not returned yet) and, in a _traverse_tree
\* frame, its local list leaf_values.
Frame(fn, node_index) ==
    [fn |-> fn, node_index |-> node_index, pc |-> "entry", leaf_values |-> <<>>]

Outcome(err, stk, value) == [err |-> err, stack |-> stk, value |-> value]

\* a call: the caller moves to pc and the callee's frame goes on top
call_frame(rest, top, pc, callee, value) ==
    IF Len(rest) + 2 > RecursionLimit
    THEN Outcome("RecursionError", <<>>, NaN)
    ELSE Outcome("running", rest \o <<[top EXCEPT !.pc = pc], callee>>, value)

\* a descent that calls itself on the node it is at
descend_in_place(x, current_node) == current_node.index

\* the child _traverse_tree goes on with
descend(x, current_node) ==
    IF goes_left(x, current_node) THEN get_idx_left_child(current_node)
    ELSE get_idx_right_child(current_node)

\* the leaf_values list the running _traverse_leaf_values frames share:
\* the local of the _traverse_tree frame that called the first of them
leaf_values_owner(stk) ==
    CHOOSE j \in 1 .. Len(stk) :
        /\ stk[j].fn = "_traverse_tree"
        /\ \A i \in (j + 1) .. Len(stk) : stk[i].fn # "_traverse_tree"

\* one step of the frame on top of the stack, up to its next call or its
\* return; value is the value the frame that returned last has returned
step(d, x, excluded, stk, value) ==
    LET top == stk[Len(stk)]
        rest == SubSeq(stk, 1, Len(stk) - 1)
        return(v) == Outcome(IF rest = <<>> THEN "none" ELSE "running", rest, v)
    IN IF top.pc = "entry" /\ top.node_index \notin DOMAIN d.node
       THEN Outcome("KeyError", <<>>, NaN)
       ELSE IF top.fn = "_traverse_tree"
       THEN IF top.pc = "entry"
            THEN LET current_node == d.node[top.node_index]
                 IN IF is_leaf_node(current_node)
                    THEN return(Float(current_node.value))
                    ELSE IF current_node.idx_split_variable \in excluded
                    THEN call_frame(rest, top, "wait_leaf_values",
                                    Frame("_traverse_leaf_values", top.node_index), value)
                    ELSE call_frame(rest, top, "wait_child",
                                    Frame("_traverse_tree", descend(x, current_node)), value)
            ELSE IF top.pc = "wait_leaf_values"
            THEN return(np_mean(top.leaf_values))
            ELSE return(value)
       ELSE IF top.pc = "entry"
            THEN LET node == d.node[top.node_index]
                 IN IF is_leaf_node(node)
                    THEN LET dropped == np_append(stk[leaf_values_owner(stk)].leaf_values,
                                                  node.value)
                         IN return(value)
                    ELSE call_frame(rest, top, "wait_left",
                                    Frame("_traverse_leaf_values", get_idx_left_child(node)), value)
            ELSE IF top.pc = "wait_left"
            THEN call_frame(rest, top, "wait_right",
                            Frame("_traverse_leaf_values",
                                  get_idx_right_child(d.node[top.node_index])), value)
            ELSE return(value)

\* ------------------------------------------------------------------- grow
\* The proposal mechanism's grow of leaf i: the leaf becomes a split with
\* the same index and two new leaves take its rows, the first j to the left
\* child and the others to the right child.
grow(w, t, i, split_value, idx_split_variable, lv, rv, j) ==
    LET rows == TreeDict(w, t).node[i].idx_data_points
        new_split == new_split_node(i, split_value, idx_split_variable)
        left == new_leaf_node(get_idx_left_child(new_split), lv,
                              SubSeq(rows, 1, j))
        right == new_leaf_node(get_idx_right_child(new_split), rv,
                               SubSeq(rows, j + 1, Len(rows)))
        w1 == set_node(w, t, i, new_split)
        w2 == set_node(w1, t, left.index, left)
    IN set_node(w2, t, right.index, right)

\* ---------------------------------------------------------------- actions
Live(t) == trees[t] # NoTree

NoPair == [fresh |-> FALSE, src |-> "T", dst |-> "T", done |-> {}]
NoValue == [err |-> "none", value |-> NaN, out |-> <<>>]
Raised(e) == [NoValue EXCEPT !.err = e]

Commit(w) ==
    LET c == Collect(w)
    IN trees' = c.trees /\ dicts' = c.dicts /\ bufs' = c.bufs

\* t = Tree(leaf_node_value, idx_data_points, output) with all the rows
Init ==
    \E v \in DefaultLeafValues, fill \in OutFill :
        LET w0 == [trees |-> [t \in TreeIds |-> NoTree],
                   dicts |-> [r \in Refs |-> Free],
                   bufs |-> [r \in Refs |-> IF r = 1
                               THEN [kind |-> "ndarray",
                                     data |-> [row \in Rows |-> [c \in Cols |-> fill]]]
                               ELSE Free]]
            w1 == Tree__init__(w0, "T", v, [j \in 1 .. NumRows |-> j - 1], 1)
        IN /\ trees = w1.trees
           /\ dicts = w1.dicts
           /\ bufs = w1.bufs
           /\ ops = 0
           /\ raw = 0
           /\ pair = NoPair
           /\ last = [op |-> "init", tree |-> "T"]
           /\ ret = NoValue
           /\ stack = <<>>

Grow(t, i) ==
    /\ ops < MaxOps
    /\ Live(t)
    /\ i \in DOMAIN TreeDict(World, t).node
    /\ is_leaf_node(TreeDict(World, t).node[i])
    /\ HasAttr(TreeDict(World, t).node[i], "idx_data_points")
    /\ 2 * i + 2 <= MaxIndex
    /\ \E var \in Vars, thr \in Thresholds, lr \in LeafPairs,
          j \in 0 .. Len(TreeDict(World, t).node[i].idx_data_points) :
            Commit(grow(World, t, i, thr, var, lr[1], lr[2], j))
    /\ ops' = ops + 1
    /\ pair' = NoPair
    /\ UNCHANGED <<raw, stack>>
    /\ last' = [op |-> "grow", tree |-> t, index |-> i]
    /\ ret' = NoValue

NodeArgs(i) ==
    {new_leaf_node(i, v, <<>>) : v \in LeafValues}
    \cup {new_split_node(i, thr, var) : thr \in Thresholds, var \in Vars}

SetNode(t, i) ==
    /\ ops < MaxOps
    /\ raw < MaxSetNode
    /\ Live(t)
    /\ \E node \in NodeArgs(i) :
          /\ Commit(set_node(World, t, i, node))
          /\ last' = [op |-> "set_node", tree |-> t, index |-> i, node |-> node]
    /\ ops' = ops + 1
    /\ raw' = raw + 1
    /\ pair' = NoPair
    /\ ret' = NoValue
    /\ UNCHANGED stack

DeleteLeafNode(t, i) ==
    /\ Live(t)
    /\ LET r == delete_leaf_node(World, t, i)
       IN /\ Commit(r.w)
          /\ ret' = Raised(r.err)
    /\ last' = [op |-> "delete_leaf_node", tree |-> t, index |-> i]
    /\ UNCHANGED <<ops, raw, pair, stack>>

GetNode(t, i) ==
    /\ Live(t)
    /\ LET r == get_node(World, t, i)
       IN /\ Commit(r.w)
          /\ ret' = [err |-> r.err, node |-> r.node]
    /\ last' = [op |-> "get_node", tree |-> t, index |-> i]
    /\ UNCHANGED <<ops, raw, pair, stack>>

Copy(src, dst) ==
    /\ ops < MaxOps
    /\ Live(src)
    /\ ~Live(dst)
    /\ LET r == copy(World, src, dst)
       IN /\ Commit(r.w)
          /\ ret' = Raised(r.err)
          /\ pair' = IF r.err = "none"
                     THEN [fresh |-> TRUE, src |-> src, dst |-> dst, done |-> {}]
                     ELSE pair
    /\ ops' = ops + 1
    /\ UNCHANGED <<raw, stack>>
    /\ last' = [op |-> "copy", tree |-> dst, src |-> src]

Trim(src, dst) ==
    /\ ops < MaxOps
    /\ Live(src)
    /\ ~Live(dst)
    /\ LET r == trim(World, src, dst)
       IN /\ Commit(r.w)
          /\ ret' = Raised(r.err)
    /\ ops' = ops + 1
    /\ pair' = NoPair
    /\ UNCHANGED <<raw, stack>>
    /\ last' = [op |-> "trim", tree |-> dst, src |-> src]

PredictBatch(t) ==
    /\ Live(t)
    /\ LET r == _predict(World, t)
       IN /\ Commit(r.w)
          /\ ret' = [err |-> r.err, value |-> NaN, out |-> r.out]
          /\ pair' = IF pair.fresh /\ t \in {pair.src, pair.dst} /\ r.err = "none"
                     THEN [pair EXCEPT !.done = @ \cup {t}]
                     ELSE pair
    /\ last' = [op |-> "predict_batch", tree |-> t]
    /\ UNCHANGED <<ops, raw, stack>>

\* the points x: covariate 0 takes each value of XVals, the other
\* covariates take the mirrored value
XArgs == {[v \in Vars |-> IF v = 0 THEN a ELSE 10 - a] : a \in XVals}
ExcludedArgs == {None} \cup {List(S) : S \in {{}} \cup {{v} : v \in Vars}}

Predict(t) ==
    /\ Live(t)
    /\ \E x \in XArgs, excluded \in ExcludedArgs :
          LET r == predict(World, t, x, excluded)
          IN /\ ret' = [err |-> r.err, value |-> r.value, out |-> <<>>]
             /\ last' = [op |-> "predict", tree |-> t, x |-> x, excluded |-> excluded]
    /\ UNCHANGED <<trees, dicts, bufs, ops, raw, pair, stack>>

\* t.predict(x, excluded) is entered: excluded = [] for None, then the
\* call self._traverse_tree(x, 0, excluded)
PredictCall(t) ==
    /\ stack = <<>>
    /\ Live(t)
    /\ \E x \in XArgs, excluded \in ExcludedArgs :
          last' = [op |-> "predict", tree |-> t, x |-> x, excluded |-> excluded]
    /\ stack' = <<Frame("_traverse_tree", 0)>>
    /\ ret' = [err |-> "running", value |-> NaN, out |-> <<>>]
    /\ UNCHANGED <<trees, dicts, bufs, ops, raw, pair>>

\* the interpreter runs the frame on top of the stack
PredictStep ==
    /\ stack # <<>>
    /\ LET r == step(TreeDict(World, last.tree), last.x,
                     IF last.excluded.none THEN {} ELSE last.excluded.list,
                     stack, ret.value)
       IN /\ stack' = r.stack
          /\ ret' = [err |-> r.err, value |-> r.value, out |-> <<>>]
    /\ UNCHANGED <<trees, dicts, bufs, ops, raw, pair, last>>

GetSplitVariables(t) ==
    /\ Live(t)
    /\ ret' = [err |-> "none", list |-> get_split_variables(World, t)]
    /\ last' = [op |-> "get_split_variables", tree |-> t]
    /\ UNCHANGED <<trees, dicts, bufs, ops, raw, pair, stack>>

\* Node().new_leaf_node(index, value, idx_data_points)
NewLeafNode ==
    /\ \E i \in NodeIndices, v \in LeafValues, pts \in PointArgs :
          /\ ret' = [err |-> "none", node |-> new_leaf_node(i, v, pts)]
          /\ last' = [op |-> "new_leaf_node", index |-> i, value |-> v,
                      idx_data_points |-> pts]
    /\ UNCHANGED <<trees, dicts, bufs, ops, raw, pair, stack>>

\* Node().new_split_node(index, split_value, idx_split_variable)
NewSplitNode ==
    /\ \E i \in NodeIndices, thr \in Thresholds, var \in SplitVarArgs :
          /\ ret' = [err |-> "none", node |-> new_split_node(i, thr, var)]
          /\ last' = [op |-> "new_split_node", index |-> i, split_value |-> thr,
                      idx_split_variable |-> var]
    /\ UNCHANGED <<trees, dicts, bufs, ops, raw, pair, stack>>

\* the nodes the two constructors make
NodePool ==
    {new_leaf_node(i, v, pts) : i \in NodeIndices, v \in LeafValues, pts \in PointArgs}
    \cup {new_split_node(i, thr, var) :
            i \in NodeIndices, thr \in Thresholds, var \in SplitVarArgs}

GetIdxParentNode ==
    /\ \E node \in NodePool :
          /\ ret' = [err |-> "none", index |-> get_idx_parent_node(node)]
          /\ last' = [op |-> "get_idx_parent_node", node |-> node]
    /\ UNCHANGED <<trees, dicts, bufs, ops, raw, pair, stack>>

GetIdxLeftChild ==
    /\ \E node \in NodePool :
          /\ ret' = [err |-> "none", index |-> get_idx_left_child(node)]
          /\ last' = [op |-> "get_idx_left_child", node |-> node]
    /\ UNCHANGED <<trees, dicts, bufs, ops, raw, pair, stack>>

GetIdxRightChild ==
    /\ \E node \in NodePool :
          /\ ret' = [err |-> "none", index |-> get_idx_right_child(node)]
          /\ last' = [op |-> "get_idx_right_child", node |-> node]
    /\ UNCHANGED <<trees, dicts, bufs, ops, raw, pair, stack>>

IsSplitNode ==
    /\ \E node \in NodePool :
          /\ ret' = [err |-> "none", bool |-> is_split_node(node)]
          /\ last' = [op |-> "is_split_node", node |-> node]
    /\ UNCHANGED <<trees, dicts, bufs, ops, raw, pair, stack>>

IsLeafNode ==
    /\ \E node \in NodePool :
          /\ ret' = [err |-> "none", bool |-> is_leaf_node(node)]
          /\ last' = [op |-> "is_leaf_node", node |-> node]
    /\ UNCHANGED <<trees, dicts, bufs, ops, raw, pair, stack>>

\* the indices 2^k + m - 1 next to a power of two, m in -1 .. 1
DepthArgs ==
    {x \in {PyInt(k, m - 1) : k \in 0 .. MaxExp, m \in -1 .. 1} :
        /\ x.exp <= 1 => -Pow2(x.exp) <= 2 * (x.off + 1)
        /\ x.exp <= 1 => x.off + 1 < Pow2(x.exp)}

GetDepth ==
    /\ \E index \in DepthArgs :
          /\ ret' = [err |-> "none", depth |-> get_depth(index)]
          /\ last' = [op |-> "get_depth", index |-> index]
    /\ UNCHANGED <<trees, dicts, bufs, ops, raw, pair, stack>>

\* correct external use: construction, grows, copies, trims, predictions
NextGrow ==
    \/ \E t \in TreeIds, i \in Indices : Grow(t, i)
    \/ \E s \in TreeIds, t \in TreeIds : Copy(s, t)
    \/ \E s \in TreeIds, t \in TreeIds : Trim(s, t)
    \/ \E t \in TreeIds : PredictBatch(t)
    \/ \E t \in TreeIds : Predict(t)
    \/ \E t \in TreeIds : GetSplitVariables(t)

SpecGrow == Init /\ [][NextGrow]_vars

\* any external use of the mutating calls: single set_node and
\* delete_leaf_node calls next to grows, copies and batch predictions
Next ==
    \/ \E t \in TreeIds, i \in Indices : Grow(t, i)
    \/ \E t \in TreeIds, i \in 0 .. MaxRawIndex : SetNode(t, i)
    \/ \E t \in TreeIds, i \in 0 .. MaxRawIndex : DeleteLeafNode(t, i)
    \/ \E s \in TreeIds, t \in TreeIds : Copy(s, t)
    \/ \E t \in TreeIds : PredictBatch(t)

Spec == Init /\ [][Next]_vars

\* lookups by index on trees built by grows and single set_node calls
NextLookup ==
    \/ \E t \in TreeIds, i \in Indices : Grow(t, i)
    \/ \E t \in TreeIds, i \in 0 .. MaxRawIndex : SetNode(t, i)
    \/ \E t \in TreeIds, i \in Indices : GetNode(t, i)

SpecLookup == Init /\ [][NextLookup]_vars

\* predictions run frame by frame on trees built by grows; nothing else
\* runs while a prediction is on the stack (the code is single-threaded)
NextTraverse ==
    \/ stack = <<>> /\ \E t \in TreeIds, i \in Indices : Grow(t, i)
    \/ \E t \in TreeIds : PredictCall(t)
    \/ PredictStep

\* the interpreter does not stop in the middle of a call
SpecTraverse == Init /\ [][NextTraverse]_vars /\ WF_vars(PredictStep)

\* the Node methods and get_depth, called on their own
NextNode ==
    \/ NewLeafNode
    \/ NewSplitNode
    \/ GetIdxParentNode
    \/ GetIdxLeftChild
    \/ GetIdxRightChild
    \/ IsSplitNode
    \/ IsLeafNode
    \/ GetDepth

SpecNode == Init /\ [][NextNode]_vars

\* ------------------------------------------- vocabulary of the properties
NodesOf(t) == TreeDict(World, t).node
KeysOf(t) == DOMAIN NodesOf(t)
LeafKeys(t) == {k \in KeysOf(t) : NodesOf(t)[k].idx_split_variable < 0}
SplitKeys(t) == KeysOf(t) \ LeafKeys(t)
Untrimmed(t) == Live(t) /\ trees[t].dels = {}
OutputOf(t) == bufs[trees[t].output].data

\* index k and the indices above it on the way to the root
RECURSIVE AncOrSelf(_)
AncOrSelf(k) == IF k <= 0 THEN {k} ELSE {k} \cup AncOrSelf((k - 1) \div 2)

\* C1: in every reachable state, the leaf_indices of each tree are exactly
\* the indices of nodes whose node is a Leaf (none missing, none extra).
C1_LeafIndicesExact ==
    \A t \in TreeIds :
        Untrimmed(t) => SeqToSet(trees[t].idx_leaf_nodes) = LeafKeys(t)

\* the places (a, b): row b of the a-th registered leaf
LeafPlaces(t) ==
    {p \in (1 .. Len(trees[t].idx_leaf_nodes)) \X (1 .. NumRows) :
        /\ trees[t].idx_leaf_nodes[p[1]] \in KeysOf(t)
        /\ p[2] <= Len(NodesOf(t)[trees[t].idx_leaf_nodes[p[1]]].idx_data_points)}
RowAt(t, p) == NodesOf(t)[trees[t].idx_leaf_nodes[p[1]]].idx_data_points[p[2]]

\* C2: after construction and after every grow, the rows of the nodes named
\* by leaf_indices are pairwise disjoint and together are all the rows: every
\* row is at exactly one place of exactly one registered leaf.
C2_LeafPartition ==
    \A t \in TreeIds :
        Untrimmed(t) =>
            \A r \in Rows : Cardinality({p \in LeafPlaces(t) : RowAt(t, p) = r}) = 1

\* C3: after construction and after every grow, the node map is a full
\* binary tree rooted at 0: 0 is present, a Split has both children, a Leaf
\* has none, and every other index has its parent present.
C3_FullBinaryTree ==
    \A t \in TreeIds :
        Live(t) =>
            /\ 0 \in KeysOf(t)
            /\ \A k \in SplitKeys(t) : 2 * k + 1 \in KeysOf(t) /\ 2 * k + 2 \in KeysOf(t)
            /\ \A k \in LeafKeys(t) : 2 * k + 1 \notin KeysOf(t) /\ 2 * k + 2 \notin KeysOf(t)
            /\ \A k \in KeysOf(t) : k > 0 => (k - 1) \div 2 \in KeysOf(t)

\* a grow of a leaf below the root has completed
C3_Witness ==
    /\ last.op = "grow"
    /\ last.index > 0
    /\ Cardinality(KeysOf(last.tree)) = 5
    /\ Cardinality(LeafKeys(last.tree)) = 3

\* C4: predict_batch returns a buffer in which every row holds the value of
\* the current leaf whose rows contain it.
C4_BatchIsLeafValue ==
    (last.op = "predict_batch" /\ Untrimmed(last.tree)) =>
        /\ ret.err = "none"
        /\ \A r \in Rows, c \in Cols, k \in LeafKeys(last.tree) :
              r \in SeqToSet(NodesOf(last.tree)[k].idx_data_points)
                  => ret.out[c][r] = NodesOf(last.tree)[k].value

\* the indices the descent for x visits: every index above k is a Split
\* whose variable is not excluded, and k lies on the side of it that the
\* comparison x[variable] <= threshold selects
OnPath(t, x, ex) ==
    {k \in KeysOf(t) :
        \A a \in AncOrSelf(k) \ {k} :
            /\ a \in SplitKeys(t)
            /\ NodesOf(t)[a].idx_split_variable \notin ex
            /\ \A c \in AncOrSelf(k) :
                  (c > 0 /\ (c - 1) \div 2 = a) =>
                      ((c = 2 * a + 1) <=>
                          (x[NodesOf(t)[a].idx_split_variable] <= NodesOf(t)[a].value))}

\* where the descent ends: at a Leaf, or at a Split on an excluded variable
StopKeys(t, x, ex) ==
    {k \in OnPath(t, x, ex) :
        k \in LeafKeys(t) \/ NodesOf(t)[k].idx_split_variable \in ex}

LeavesBelow(t, k) == {l \in LeafKeys(t) : k \in AncOrSelf(l)}

ExcludedOf(call) == IF call.excluded.none THEN {} ELSE call.excluded.list

\* C5: when the descent reaches a Split whose variable is excluded,
\* predict_point returns the unweighted mean of the values of all the
\* leaves below that Split.
C5_ExcludedMean ==
    last.op = "predict" =>
        \A k \in StopKeys(last.tree, last.x, ExcludedOf(last)) :
            k \in SplitKeys(last.tree) =>
                /\ ret.err = "none"
                /\ FloatEq(ret.value,
                           [nan |-> FALSE,
                            n |-> SetSum([l \in LeafKeys(last.tree) |->
                                             NodesOf(last.tree)[l].value],
                                         LeavesBelow(last.tree, k)),
                            d |-> Cardinality(LeavesBelow(last.tree, k))])

\* C6: when no variable on the path is excluded, predict_point returns the
\* value of the Leaf reached from 0 by going left on x[variable] <= threshold
\* and right otherwise.
C6_DescentLeaf ==
    last.op = "predict" =>
        \A k \in StopKeys(last.tree, last.x, ExcludedOf(last)) :
            k \in LeafKeys(last.tree) =>
                /\ ret.err = "none"
                /\ FloatEq(ret.value, Float(NodesOf(last.tree)[k].value))

\* a descent over two splits with a variable excluded that is not on the
\* path, taking the left branch at the root on equality with the threshold
C6_Witness ==
    /\ last.op = "predict"
    /\ ExcludedOf(last) # {}
    /\ \E k \in StopKeys(last.tree, last.x, ExcludedOf(last)) :
          k \in LeafKeys(last.tree) /\ k \in {3, 4}
    /\ last.x[NodesOf(last.tree)[0].idx_split_variable] = NodesOf(last.tree)[0].value

\* what a caller can see of a tree's structure: its node map (with every
\* leaf's rows) and its leaf_indices
ViewOf(t) == [nodes |-> TreeDict(World, t), leaves |-> trees[t].idx_leaf_nodes]

\* C7: a mutation (set_node, delete_leaf_node, grow) of one of a tree and
\* its copy leaves the node map, leaf_indices and leaf rows of the other
\* unchanged.
C7_CopyIndependent ==
    [][\A t \in TreeIds, u \in TreeIds :
          (/\ t # u
           /\ Live(t)
           /\ Live(u)
           /\ last'.op \in {"set_node", "delete_leaf_node", "grow"}
           /\ last'.tree = u)
          => ViewOf(t)' = ViewOf(t)]_vars

\* the copy was grown and now differs from the tree it was copied from
C7_Witness ==
    /\ last.op = "grow"
    /\ last.tree = "C"
    /\ Live("T")
    /\ ViewOf("C").nodes # ViewOf("T").nodes
    /\ KeysOf("T") = {0}

\* C8: right after c = t.copy(), c.predict_batch() and t.predict_batch() are
\* equal element-wise and both hold, for every row, the value of the leaf
\* of t whose rows contain it.
C8_CopyPredictsSame ==
    (pair.fresh /\ pair.done = {pair.src, pair.dst}) =>
        \A r \in Rows, c \in Cols :
            /\ Transpose(OutputOf(pair.dst))[c][r] = Transpose(OutputOf(pair.src))[c][r]
            /\ \A k \in LeafKeys(pair.src) :
                  r \in SeqToSet(NodesOf(pair.src)[k].idx_data_points)
                      => Transpose(OutputOf(pair.src))[c][r] = NodesOf(pair.src)[k].value

\* C9: predict_batch on one of a tree and its copy leaves the content of
\* the output buffer of the other unchanged.
C9_BufferNotShared ==
    [][\A t \in TreeIds, u \in TreeIds :
          (/\ t # u
           /\ Untrimmed(t)
           /\ Live(u)
           /\ last'.op = "predict_batch"
           /\ last'.tree = u)
          => OutputOf(t)' = OutputOf(t)]_vars

\* predict_batch wrote the buffer of the copy and the original kept its own
C9_Witness ==
    /\ last.op = "predict_batch"
    /\ last.tree = "C"
    /\ ret.err = "none"
    /\ Untrimmed("T")
    /\ OutputOf("C") # OutputOf("T")

\* C10: predict_point on t.trim() equals predict_point on t for every x and
\* every excluded set; trim keeps every node index, split threshold, split
\* variable and leaf value.
C10_TrimPredictsSame ==
    (last.op = "trim" /\ ret.err = "none") =>
        /\ KeysOf(last.tree) = KeysOf(last.src)
        /\ \A k \in KeysOf(last.src) :
              /\ NodesOf(last.tree)[k].index = NodesOf(last.src)[k].index
              /\ NodesOf(last.tree)[k].value = NodesOf(last.src)[k].value
              /\ NodesOf(last.tree)[k].idx_split_variable = NodesOf(last.src)[k].idx_split_variable
        /\ \A x \in XArgs, excluded \in ExcludedArgs :
              /\ predict(World, last.tree, x, excluded).err = "none"
              /\ predict(World, last.src, x, excluded).err = "none"
              /\ FloatEq(predict(World, last.tree, x, excluded).value,
                         predict(World, last.src, x, excluded).value)

\* how often index i is listed in the leaf_indices of tree t
TimesListed(t, i) ==
    Cardinality({j \in 1 .. Len(trees[t].idx_leaf_nodes) : trees[t].idx_leaf_nodes[j] = i})

\* C11: delete_leaf_node(i) on a tree in which i is a registered leaf
\* removes i from leaf_indices and from nodes and leaves every other node,
\* every other entry of leaf_indices and the output buffer unchanged.
C11_DeleteRemoves ==
    [][\A t \in TreeIds, i \in Indices :
          (/\ Live(t)
           /\ last'.op = "delete_leaf_node"
           /\ last'.tree = t
           /\ last'.index = i
           /\ TimesListed(t, i) > 0
           /\ i \in LeafKeys(t))
          => /\ TimesListed(t, i)' = 0
             /\ KeysOf(t)' = KeysOf(t) \ {i}
             /\ \A k \in KeysOf(t) \ {i} : NodesOf(t)'[k] = NodesOf(t)[k]
             /\ \A k \in Indices \ {i} : TimesListed(t, k)' = TimesListed(t, k)
             /\ OutputOf(t)' = OutputOf(t)]_vars

\* C12: after set_node(i, node) with a Leaf node, i is listed in
\* leaf_indices exactly once, however often the call was made; after
\* set_node with a Split node the listing of i is as it was before.
C12_SetNodeRegistersOnce ==
    [][\A t \in TreeIds, i \in Indices :
          (Live(t) /\ last'.op = "set_node" /\ last'.tree = t /\ last'.index = i)
          => IF last'.node.idx_split_variable < 0
             THEN TimesListed(t, i)' = 1
             ELSE TimesListed(t, i)' = TimesListed(t, i)]_vars

\* C13: get_node(i) for an index that is not in nodes fails with an error,
\* returns no node, and leaves nodes and leaf_indices as they were.
C13_GetNodeAbsentFails ==
    [][\A t \in TreeIds, i \in Indices :
          (/\ Live(t)
           /\ last'.op = "get_node"
           /\ last'.tree = t
           /\ last'.index = i
           /\ i \notin KeysOf(t))
          => /\ ret'.err = "KeyError"
             /\ ViewOf(t)' = ViewOf(t)
             /\ i \notin KeysOf(t)']_vars

\* a lookup of an index of a tree that does not hold it has failed
C13_Witness ==
    /\ last.op = "get_node"
    /\ last.index \notin KeysOf(last.tree)
    /\ ret.err = "KeyError"
    /\ Cardinality(KeysOf(last.tree)) > 1

\* C14: a left child is 2i+1, a right child 2i+2, the parent of i > 0 is
\* (i-1) div 2, i.e. the p with i = 2p+1 or i = 2p+2, and the parent of
\* either child of i is i again.
C14_IndexArithmetic ==
    /\ last.op = "get_idx_left_child" =>
          /\ ret.index = 2 * last.node.index + 1
          /\ get_idx_parent_node([last.node EXCEPT !.index = ret.index]) = last.node.index
    /\ last.op = "get_idx_right_child" =>
          /\ ret.index = 2 * last.node.index + 2
          /\ get_idx_parent_node([last.node EXCEPT !.index = ret.index]) = last.node.index
    /\ (last.op = "get_idx_parent_node" /\ last.node.index > 0) =>
          /\ ret.index >= 0
          /\ last.node.index \in {2 * ret.index + 1, 2 * ret.index + 2}

C14_Witness ==
    /\ last.op = "get_idx_parent_node"
    /\ last.node.index = 6
    /\ ret.index = 2

\* C15 as stated: parent_index() on the root returns 0.
C15_RootParentIsZero ==
    (last.op = "get_idx_parent_node" /\ last.node.index = 0) => ret.index = 0

\* C15: parent_index() on the root (index 0) returns -1, the floor of
\* -1/2, which is no node index and not the root itself.
C15_RootParentIsMinusOne ==
    (last.op = "get_idx_parent_node" /\ last.node.index = 0) =>
        /\ ret.index = -1
        /\ ret.index \notin NodeIndices

C15_Witness ==
    /\ last.op = "get_idx_parent_node"
    /\ last.node.index = 0
    /\ ret.index < 0

\* C16: a node is a Split iff its split variable is >= 0; is_leaf and
\* is_split never agree; new_leaf_node(i, v, pts) gives index i, value v,
\* split variable -1, points pts, a leaf; new_split_node(i, t, var) with
\* var >= 0 gives index i, value t, split variable var, no points, a split.
C16_LeafSplit ==
    /\ last.op = "is_split_node" =>
          /\ ret.bool = (last.node.idx_split_variable >= 0)
          /\ is_leaf_node(last.node) = ~ret.bool
    /\ last.op = "is_leaf_node" =>
          /\ ret.bool = (last.node.idx_split_variable < 0)
          /\ is_split_node(last.node) = ~ret.bool
    /\ last.op = "new_leaf_node" =>
          /\ ret.node.index = last.index
          /\ ret.node.value = last.value
          /\ ret.node.idx_split_variable = -1
          /\ ret.node.idx_data_points = last.idx_data_points
          /\ is_leaf_node(ret.node)
          /\ ~is_split_node(ret.node)
    /\ (last.op = "new_split_node" /\ last.idx_split_variable >= 0) =>
          /\ ret.node.index = last.index
          /\ ret.node.value = last.split_value
          /\ ret.node.idx_split_variable = last.idx_split_variable
          /\ ret.node.idx_data_points = <<>>
          /\ is_split_node(ret.node)
          /\ ~is_leaf_node(ret.node)

C16_Witness ==
    /\ last.op = "is_split_node"
    /\ last.node.idx_split_variable = 0
    /\ ret.bool

\* floor(log2(x)) of the integer x = 2^exp + off
FloorLog2(x) == IF x.off >= 0 THEN x.exp ELSE x.exp - 1

\* C17: depth(i) = floor(log2(i+1)) for every index i >= 0.
C17_DepthFormula ==
    last.op = "get_depth" => ret.depth = FloorLog2(int_add(last.index, 1))
\* C18: split_variables() has one entry per Split node of the tree, equal
\* to that node's split variable, and none for a Leaf: every variable occurs
\* in the list as often as there are Split nodes testing it.
C18_SplitVariables ==
    last.op = "get_split_variables" =>
        /\ Len(ret.list) = Cardinality(SplitKeys(last.tree))
        /\ \A v \in SeqToSet(ret.list) \cup Vars :
              Cardinality({j \in 1 .. Len(ret.list) : ret.list[j] = v})
                = Cardinality({k \in SplitKeys(last.tree) :
                                 NodesOf(last.tree)[k].idx_split_variable = v})

C18_Witness ==
    /\ last.op = "get_split_variables"
    /\ Len(ret.list) = 2
    /\ Cardinality(LeafKeys(last.tree)) = 3
\* depth of index k in the implicit binary tree
DepthOf(k) == Cardinality(AncOrSelf(k)) - 1
MaxDepthOf(t) == CHOOSE m \in 0 .. MaxIndex :
                    /\ \E k \in KeysOf(t) : DepthOf(k) = m
                    /\ \A k \in KeysOf(t) : DepthOf(k) <= m

\* the calls on the stack that a function made to itself
RecursiveSteps == {j \in 1 .. (Len(stack) - 1) : stack[j].fn = stack[j + 1].fn}

Running == stack # <<>>
Returned == stack = <<>> /\ last.op = "predict" /\ ret.err = "none"

\* C19: on every tree built by grows, predict_point terminates: each
\* recursive step of the descent and of the leaf-value collection is on a
\* node one level deeper than its caller's, there are never more recursive
\* steps on the stack than the maximum node depth, a frame that returns is
\* at a Leaf or has had its calls return, and every call that was entered
\* returns a value.
C19_PredictTerminates ==
    /\ [](\A j \in RecursiveSteps :
            /\ stack[j + 1].node_index \in KeysOf(last.tree)
            /\ DepthOf(stack[j + 1].node_index) = DepthOf(stack[j].node_index) + 1)
    /\ [](Cardinality(RecursiveSteps) <= MaxDepthOf("T"))
    /\ [](\A j \in 1 .. Len(stack) :
            stack[j].pc = "entry" => stack[j].node_index \in KeysOf(last.tree))
    /\ (Running ~> Returned)

C19_Witness ==
    /\ Returned
    /\ Cardinality(SplitKeys(last.tree)) = 2
    /\ ~last.excluded.none
    /\ NodesOf(last.tree)[0].idx_split_variable \in last.excluded.list
\* C20: on trees reached by construction, grows and copies, neither
\* predict_point nor predict_batch looks up an index that is absent from the
\* nodes: no call ends in the lookup failure, every index in leaf_indices
\* is a key, and so is every node the descent of any x can come to.
C20_NoAbsentLookup ==
    /\ last.op \in {"predict", "predict_batch"} => ret.err # "KeyError"
    /\ \A t \in TreeIds :
          Untrimmed(t) =>
            /\ SeqToSet(trees[t].idx_leaf_nodes) \subseteq KeysOf(t)
            /\ 0 \in KeysOf(t)
            /\ \A k \in SplitKeys(t) : {2 * k + 1, 2 * k + 2} \subseteq KeysOf(t)

C20_Witness ==
    /\ last.op = "predict_batch"
    /\ last.tree = "C"
    /\ Untrimmed("C")
    /\ ret.err = "none"
    /\ SplitKeys("C") = {0}
====
